---- MODULE Spec2Model ----
(***************************************************************************)
(* Model of the track classifiers of VerseOrVibe.py (instrumental versus   *)
(* lyrical, a weighted score) and cultura_sort.py (Indian versus           *)
(* international, a boolean OR), with the callers that feed them.          *)
(*                                                                         *)
(* Text is modelled by TLA+ strings; substring tests and the regular       *)
(* expressions of the source are evaluated character by character.         *)
(* Scores are kept in HALF POINTS (the source adds integers and one 0.5):  *)
(* Pts(5) is the source's 5, HalfPt its 0.5.  Audio features, which the    *)
(* service reports in [0,1], are kept in hundredths (7 is 0.07).           *)
(***************************************************************************)
EXTENDS Integers, Sequences, FiniteSets, TLC

VARIABLES
    pc,                 \* position of the program being run
    track,              \* the track handed to the classifier
    audio_features,     \* its audio features dict, or None
    artist_info_list,   \* its artists' info dicts, or None
    sp_artist,          \* what the service answers to successive sp.artist calls
    result,             \* <<"returned", value>> or <<"raised", exception>>, None before the call
    \* main of VerseOrVibe.py
    tracks,             \* the tracks of the source playlist
    all_artist_info,    \* main's artist_info: artist id -> artist dict, as fetched
    index,              \* the i of the loop being run
    lyrical_tracks, instrumental_tracks, uncertain_tracks,
    \* safe_sp_call
    callable_func,      \* what the wrapped callable does on its successive invocations
    retries,            \* safe_sp_call's retry_count
    invocations,        \* how many times the callable has been invoked
    slept,              \* seconds spent in time.sleep
    \* add_tracks_to_playlist and get_or_create_playlist
    track_ids,
    playlist_add_items, \* what the service answers, chunk by chunk
    attempted,          \* the chunks handed to sp.playlist_add_items, in order
    added,              \* those the service accepted
    user_playlists,     \* the playlists the user owns, in the service's order
    service             \* what the service answers to the calls of get_or_create_playlist

(***************************************************************************)
(* Optional values.  None is Python's None and also a key that a dict does *)
(* not have; Some(v) is a value that is there.                             *)
(***************************************************************************)
None == <<>>
Some(v) == <<v>>
\* d.get(key, default), for a key whose value is never None
Get(field, default) == IF field = None THEN default ELSE field[1]

(***************************************************************************)
(* Strings.                                                                *)
(***************************************************************************)
UpperLetters == "ABCDEFGHIJKLMNOPQRSTUVWXYZ"
LowerLetters == "abcdefghijklmnopqrstuvwxyz"
Digits == "0123456789"

CharAt(s, i) == SubSeq(s, i, i)

\* position of character c in alphabet, 0 if it is not there
RECURSIVE IndexFrom(_, _, _)
IndexFrom(c, alphabet, k) ==
    IF k > Len(alphabet) THEN 0
    ELSE IF CharAt(alphabet, k) = c THEN k
    ELSE IndexFrom(c, alphabet, k + 1)
IndexIn(c, alphabet) == IndexFrom(c, alphabet, 1)

LowerChar(c) ==
    LET k == IndexIn(c, UpperLetters)
    IN  IF k = 0 THEN c ELSE CharAt(LowerLetters, k)

RECURSIVE lower(_)
lower(s) ==
    IF s = "" THEN ""
    ELSE LowerChar(CharAt(s, 1)) \o lower(SubSeq(s, 2, Len(s)))

\* Python's `kw in s` on strings
Contains(kw, s) ==
    \E i \in 1..(Len(s) - Len(kw) + 1) : SubSeq(s, i, i + Len(kw) - 1) = kw

\* Python's s.startswith(prefix)
StartsWith(s, prefix) ==
    Len(s) >= Len(prefix) /\ SubSeq(s, 1, Len(prefix)) = prefix

\* [x for x in xs if P(x)], in order
RECURSIVE Filter(_, _)
Filter(xs, keep) ==
    IF xs = <<>> THEN <<>>
    ELSE IF keep[Head(xs)] THEN <<Head(xs)>> \o Filter(Tail(xs), keep)
         ELSE Filter(Tail(xs), keep)

\* xs[:n]
Take(xs, n) == SubSeq(xs, 1, IF Len(xs) < n THEN Len(xs) ELSE n)

\* ', '.join(xs)
RECURSIVE Join(_)
Join(xs) ==
    IF xs = <<>> THEN ""
    ELSE IF Len(xs) = 1 THEN xs[1]
    ELSE xs[1] \o ", " \o Join(Tail(xs))

(***************************************************************************)
(* Regular expressions, as far as the source's patterns use them.          *)
(* Match(r, s, i) is the set of positions where a match of r that starts   *)
(* at position i of s can end (the position after its last character), so  *)
(* that re.search finds a match iff some start position has a nonempty     *)
(* set: exactly the backtracking matcher's answer.                         *)
(***************************************************************************)
Lit(s)   == [t |-> "lit", s |-> s]
Cls(c)   == [t |-> "cls", c |-> c]       \* "w" \w, "s" \s, "d" \d, "ws" [\w\s], "any" .
WB       == [t |-> "wb"]                 \* \b
Alt(rs)  == [t |-> "alt", rs |-> rs]
Cat(rs)  == [t |-> "cat", rs |-> rs]
Opt(r)   == [t |-> "opt", r |-> r]       \* r?
Star(r)  == [t |-> "star", r |-> r]      \* r*
Plus(r)  == Cat(<<r, Star(r)>>)          \* r+
Lits(ss) == Alt([k \in 1..Len(ss) |-> Lit(ss[k])])

IsWordChar(c) ==
    \/ IndexIn(c, LowerLetters) > 0
    \/ IndexIn(c, UpperLetters) > 0
    \/ IndexIn(c, Digits) > 0
    \/ c = "_"
IsSpaceChar(c) == c \in {" ", "\t", "\n", "\r", "\f"}
IsDigitChar(c) == IndexIn(c, Digits) > 0

InClass(c, cls) ==
    CASE cls = "w"   -> IsWordChar(c)
      [] cls = "s"   -> IsSpaceChar(c)
      [] cls = "d"   -> IsDigitChar(c)
      [] cls = "ws"  -> IsWordChar(c) \/ IsSpaceChar(c)
      [] cls = "any" -> c # "\n"

WordAt(s, i) == i >= 1 /\ i <= Len(s) /\ IsWordChar(CharAt(s, i))

RECURSIVE Match(_, _, _), MatchCat(_, _, _, _), MatchStar(_, _, _)
Match(r, s, i) ==
    CASE r.t = "lit" ->
            \* re.IGNORECASE: the patterns' literals are all lower case
            IF i + Len(r.s) - 1 <= Len(s)
               /\ lower(SubSeq(s, i, i + Len(r.s) - 1)) = r.s
            THEN {i + Len(r.s)} ELSE {}
      [] r.t = "cls" ->
            IF i <= Len(s) /\ InClass(CharAt(s, i), r.c) THEN {i + 1} ELSE {}
      [] r.t = "wb" ->
            IF WordAt(s, i - 1) # WordAt(s, i) THEN {i} ELSE {}
      [] r.t = "alt" ->
            UNION {Match(r.rs[k], s, i) : k \in 1..Len(r.rs)}
      [] r.t = "cat" -> MatchCat(r.rs, 1, s, {i})
      [] r.t = "opt" -> {i} \cup Match(r.r, s, i)
      [] r.t = "star" -> MatchStar(r.r, s, {i})
MatchCat(rs, k, s, from) ==
    IF k > Len(rs) THEN from
    ELSE MatchCat(rs, k + 1, s, UNION {Match(rs[k], s, p) : p \in from})
MatchStar(r, s, from) ==
    LET more == from \cup UNION {Match(r, s, p) : p \in from}
    IN  IF more = from THEN from ELSE MatchStar(r, s, more)

\* re.search(pattern, s, re.IGNORECASE) is not None
Search(r, s) == \E i \in 1..(Len(s) + 1) : Match(r, s, i) # {}

(***************************************************************************)
(* Configuration of VerseOrVibe.py.                                        *)
(***************************************************************************)
STRONG_INSTRUMENTAL_KEYWORDS == <<
    "instrumental", "karaoke", "backing track", "playback", "music box",
    "orchestral", "symphony", "concerto", "sonata", "prelude", "etude",
    "interlude", "intro", "outro", "overture", "finale", "movement",
    "ambient", "cinematic", "soundtrack", "film score", "movie theme",
    "piano solo", "guitar solo", "violin solo", "saxophone solo", "drum solo",
    "acoustic guitar", "classical guitar", "jazz instrumental",
    "without vocals", "no vocals", "vocals removed", "minus one",
    "meditation music", "background music", "study music", "relaxing music",
    "lofi instrumental", "chillhop instrumental", "beats to study", "ost",
    "original soundtrack" >>

MEDIUM_INSTRUMENTAL_KEYWORDS == <<
    "theme", "score", "suite", "variations", "improvisation", "jam",
    "acoustic", "unplugged version", "demo version", "rehearsal",
    "live recording", "studio session", "soundscape", "atmosphere" >>

STRONG_VOCAL_KEYWORDS == <<
    "vocals", "singer", "sung by", "featuring", "ft.", "feat.",
    "duet", "chorus", "verse", "lyrics", "ballad", "anthem",
    "acoustic version", "live version", "cover version", "remix",
    "radio edit", "single version", "album version", "extended version" >>

INSTRUMENTAL_GENRES == <<
    "ambient", "classical", "instrumental", "soundtrack", "score",
    "new age", "meditation", "nature sounds", "white noise",
    "jazz fusion", "smooth jazz instrumental", "classical crossover",
    "post-rock", "math rock", "experimental", "drone",
    "minimal techno", "deep house instrumental", "trance instrumental",
    "lo-fi beats", "chillhop", "downtempo", "trip-hop instrumental" >>

VOCAL_GENRES == <<
    "pop", "rock", "hip hop", "rap", "r&b", "soul", "funk", "disco",
    "country", "folk", "indie pop", "indie rock", "alternative",
    "punk", "metal", "blues", "reggae", "ska", "gospel",
    "singer-songwriter", "acoustic pop", "vocal jazz", "cabaret" >>

INSTRUMENTAL_ARTIST_TYPES == <<
    "orchestra", "symphony", "philharmonic", "ensemble", "quartet", "trio",
    "band", "collective", "project", "soundsystem", "beats", "productions" >>

Spaces == Plus(Cls("s"))                 \* \s+
Vocals == Cat(<<Lit("vocal"), Opt(Lit("s"))>>)      \* vocals?

INSTRUMENTAL_PATTERNS == <<
    \* \b(instrumental|karaoke|backing|playback)\b
    Cat(<<WB, Lits(<<"instrumental", "karaoke", "backing", "playback">>), WB>>),
    \* \b(without|minus|no)\s+(vocals?|voice|singing)\b
    Cat(<<WB, Lits(<<"without", "minus", "no">>), Spaces,
          Alt(<<Vocals, Lit("voice"), Lit("singing")>>), WB>>),
    \* \b(piano|guitar|violin|saxophone|drums?|bass)\s+(solo|version|instrumental)\b
    Cat(<<WB, Alt(<<Lit("piano"), Lit("guitar"), Lit("violin"), Lit("saxophone"),
                    Cat(<<Lit("drum"), Opt(Lit("s"))>>), Lit("bass")>>), Spaces,
          Lits(<<"solo", "version", "instrumental">>), WB>>),
    \* \b(theme|score|soundtrack|ost)\b
    Cat(<<WB, Lits(<<"theme", "score", "soundtrack", "ost">>), WB>>),
    \* \b(movement|part)\s+\d+\b
    Cat(<<WB, Lits(<<"movement", "part">>), Spaces, Plus(Cls("d")), WB>>),
    \* \b(prelude|interlude|outro|intro)\b
    Cat(<<WB, Lits(<<"prelude", "interlude", "outro", "intro">>), WB>>),
    \* \b(ambient|cinematic|atmospheric)\b
    Cat(<<WB, Lits(<<"ambient", "cinematic", "atmospheric">>), WB>>),
    \* \b(study|focus|concentration|meditation)\s+(music|beats)\b
    Cat(<<WB, Lits(<<"study", "focus", "concentration", "meditation">>), Spaces,
          Lits(<<"music", "beats">>), WB>>),
    \* \b(lofi|lo-fi|chill)\s+(beats|hip hop|instrumental)\b
    Cat(<<WB, Lits(<<"lofi", "lo-fi", "chill">>), Spaces,
          Lits(<<"beats", "hip hop", "instrumental">>), WB>>),
    \* \(instrumental\)|\[instrumental\]
    Lits(<<"(instrumental)", "[instrumental]">>),
    \* \(no vocals?\)|\[no vocals?\]
    Alt(<<Cat(<<Lit("(no "), Vocals, Lit(")")>>),
          Cat(<<Lit("[no "), Vocals, Lit("]")>>)>>),
    \* \(acoustic\)|\[acoustic\]
    Lits(<<"(acoustic)", "[acoustic]">>) >>

VOCAL_PATTERNS == <<
    \* \b(vocals?|singer|sung)\b
    Cat(<<WB, Alt(<<Vocals, Lit("singer"), Lit("sung")>>), WB>>),
    \* \b(feat\.?|featuring|ft\.?|with)\s+[\w\s]+\b
    Cat(<<WB, Alt(<<Cat(<<Lit("feat"), Opt(Lit("."))>>), Lit("featuring"),
                    Cat(<<Lit("ft"), Opt(Lit("."))>>), Lit("with")>>), Spaces,
          Plus(Cls("ws")), WB>>),
    \* \b(cover|version)\s+by\b
    Cat(<<WB, Lits(<<"cover", "version">>), Spaces, Lit("by"), WB>>),
    \* \b(radio|single|album|extended)\s+(edit|version|mix)\b
    Cat(<<WB, Lits(<<"radio", "single", "album", "extended">>), Spaces,
          Lits(<<"edit", "version", "mix">>), WB>>),
    \* \(.*vocals?\)
    Cat(<<Lit("("), Star(Cls("any")), Vocals, Lit(")")>>),
    \* \[.*vocals?\]
    Cat(<<Lit("["), Star(Cls("any")), Vocals, Lit("]")>>) >>

\* any(kw in text for kw in keywords)
AnyIn(keywords, text) == \E k \in 1..Len(keywords) : Contains(keywords[k], text)

\* [kw for kw in keywords if kw in text]
Matching(keywords, text) ==
    Filter(keywords, [kw \in {keywords[k] : k \in 1..Len(keywords)} |-> Contains(kw, text)])

\* the loop `for pattern in patterns: if re.search(...): ...; break`
AnyPattern(patterns, text) == \E k \in 1..Len(patterns) : Search(patterns[k], text)

(***************************************************************************)
(* Configuration of cultura_sort.py.                                       *)
(***************************************************************************)
INDIAN_LANG_KEYWORDS == <<
    "hindi", "kannada", "telugu", "tamil", "malayalam", "bengali", "assamese",
    "sanskrit", "punjabi", "gujarati", "marathi", "odia", "bhojpuri", "urdu" >>

INDIAN_GENRE_KEYWORDS == <<
    "sandalwood", "bollywood", "tollywood", "kollywood", "mollywood", "devotional",
    "bhajan", "qawwali", "classical indian", "carnatic", "hindustani", "raga",
    "ghazal", "kirtan", "mantra", "fusion indian", "indipop", "filmi", "sufi",
    "indian classical", "indian folk", "indian pop" >>

POPULAR_INDIAN_ARTISTS == <<
    "a.r. rahman", "ilaiyaraaja", "shankar mahadevan", "udit narayan",
    "lata mangeshkar", "kishore kumar", "anirudh ravichander", "yuvan shankar raja",
    "harris jayaraj", "vishal-shekhar", "shankar-ehsaan-loy", "amit trivedi",
    "arijit singh", "shreya ghoshal", "k.j. yesudas", "s.p. balasubrahmanyam",
    "devi sri prasad", "thaman s", "ghibran", "santhosh narayanan",
    "ravi basrur", "ajaneesh loknath", "b. ajaneesh loknath", "vijay prakash",
    "sonu nigam", "m.m keeravaani", "v. harikrishna", "anup bhandari",
    "rajesh krishnan", "ananya bhat", "kala bhairava", "ankit tiwari", "raghu dixit",
    "dr. rajkumar", "rajkumar", "rahat fateh ali khan", "nusrat fateh ali khan",
    "mohammed rafi", "mukesh", "hemant kumar", "manna dey", "jagjit singh",
    "ghulam ali", "hariharan", "unni menon", "kailash kher", "sukhwinder singh" >>

INDIAN_SONG_KEYWORDS == <<
    "bollywood", "item number", "playback", "duet", "sad version", "unplugged",
    "qawwali", "thumri", "bhajan", "aarti", "shloka" >>

(***************************************************************************)
(* The texts the model runs the programs on.                               *)
(***************************************************************************)
MaxArtists == 1          \* longest artist list of a track

TrackNames == {
    "Piano Solo Instrumental", "Love Song (feat. John Smith)", "Tum Hi Ho",
    "Lost", "Intro", "Universe", "Main Theme", "Hindi Duet", "Jam With You",
    "Karaoke (No Vocals)", "Movement 2", "Sung" }

IndianTrackNames == { "Tum Hi Ho", "Hindi Duet", "Bollywood Nights", "Lost" }

JaneDoe == [name |-> "Jane Doe", id |-> "a1"]
Orchestra == [name |-> "London Symphony Orchestra", id |-> "a2"]
ArijitSingh == [name |-> "Arijit Singh", id |-> "a3"]

AlbumNames == { "Scores", "Original Soundtrack" }
IndianAlbumNames == { "Aashiqui 2", "Urdu Ghazals" }

GenreNames == { "Classical", "orchestral soundtrack", "pop", "indie pop",
                "classical crossover", "Filmi", "modern bollywood",
                "post-rock", "ambient" }

Texts ==
    TrackNames \cup IndianTrackNames \cup AlbumNames \cup IndianAlbumNames
        \cup GenreNames \cup {JaneDoe.name, Orchestra.name, ArijitSingh.name}

(***************************************************************************)
(* What the programs look for in a lower-cased text.  The tables hold the  *)
(* answers for the texts above, so that they are computed once.            *)
(***************************************************************************)
lowerTable == [s \in Texts |-> lower(s)]
Lower(s) == lowerTable[s]

TextFacts(text) ==
    [\* VerseOrVibe.py
     strong_instrumental  |-> Matching(STRONG_INSTRUMENTAL_KEYWORDS, text),
     medium_instrumental  |-> Matching(MEDIUM_INSTRUMENTAL_KEYWORDS, text),
     strong_vocal         |-> Matching(STRONG_VOCAL_KEYWORDS, text),
     instrumental_pattern |-> AnyPattern(INSTRUMENTAL_PATTERNS, text),
     vocal_pattern        |-> AnyPattern(VOCAL_PATTERNS, text),
     instrumental_pattern_hits |->
         [k \in 1..Len(INSTRUMENTAL_PATTERNS) |-> Search(INSTRUMENTAL_PATTERNS[k], text)],
     vocal_pattern_hits   |->
         [k \in 1..Len(VOCAL_PATTERNS) |-> Search(VOCAL_PATTERNS[k], text)],
     artist_type          |-> AnyIn(INSTRUMENTAL_ARTIST_TYPES, text),
     instrumental_genre   |-> AnyIn(INSTRUMENTAL_GENRES, text),
     vocal_genre          |-> AnyIn(VOCAL_GENRES, text),
     intro                |-> Contains("intro", text),
     \* cultura_sort.py
     indian_artist        |-> AnyIn(POPULAR_INDIAN_ARTISTS, text),
     indian_lang          |-> AnyIn(INDIAN_LANG_KEYWORDS, text),
     indian_song          |-> AnyIn(INDIAN_SONG_KEYWORDS, text),
     indian_genre         |-> AnyIn(INDIAN_GENRE_KEYWORDS, text),
     indian_album         |-> AnyIn(INDIAN_LANG_KEYWORDS \o INDIAN_SONG_KEYWORDS, text)]

factsTable == [text \in {lowerTable[s] : s \in Texts} \cup {""} |-> TextFacts(text)]
Facts(text) == factsTable[text]

(***************************************************************************)
(* Scores and numbers.                                                     *)
(***************************************************************************)
Pts(n) == 2 * n          \* n points, in half points
HalfPt == Pts(1) \div 2  \* 0.5 points
abs(x) == IF x < 0 THEN -x ELSE x

Digit(d) == CharAt(Digits, d + 1)

\* f"{v:.3f}" and f"{v:.2f}" of a feature value kept in hundredths
Fixed(hundredths, decimals) ==
    ToString(hundredths \div 100) \o "." \o Digit((hundredths % 100) \div 10)
        \o Digit(hundredths % 10) \o (IF decimals = 3 THEN "0" ELSE "")

\* f"{duration_ms / 60000:.1f}" (no duration of the model is on a rounding tie)
Minutes1(duration_ms) ==
    LET tenths == (duration_ms + 3000) \div 6000
    IN  ToString(tenths \div 10) \o "." \o Digit(tenths % 10)

\* What one rule adds to the running total and to the reason list; raised
\* says that evaluating it raised an exception.
NoScore == [score |-> 0, reasons |-> <<>>, raised |-> FALSE]
Scored(delta, reason) == [score |-> delta, reasons |-> <<reason>>, raised |-> FALSE]
Raises == [score |-> 0, reasons |-> <<>>, raised |-> TRUE]

\* running total and reason list after a sequence of rule outcomes
RECURSIVE Accumulate(_)
Accumulate(outcomes) ==
    IF outcomes = <<>> THEN NoScore
    ELSE LET rest == Accumulate(Tail(outcomes))
         IN  [score |-> Head(outcomes).score + rest.score,
              reasons |-> Head(outcomes).reasons \o rest.reasons,
              raised |-> Head(outcomes).raised \/ rest.raised]

(***************************************************************************)
(* analyze_audio_features                                                  *)
(***************************************************************************)
\* `not features` for a dict: it has no key
EmptyDict(features) ==
    /\ features.speechiness = None /\ features.instrumentalness = None
    /\ features.energy = None /\ features.valence = None
    /\ features.danceability = None

SpeechinessRule(speechiness) ==
    IF speechiness < 5 THEN
        Scored(Pts(3), "Very low speechiness (" \o Fixed(speechiness, 3)
                       \o ") - likely instrumental")
    ELSE IF speechiness < 10 THEN
        Scored(Pts(2), "Low speechiness (" \o Fixed(speechiness, 3)
                       \o ") - possibly instrumental")
    ELSE IF speechiness > 30 THEN
        Scored(-Pts(3), "High speechiness (" \o Fixed(speechiness, 3)
                        \o ") - likely has vocals")
    ELSE IF speechiness > 15 THEN
        Scored(-Pts(1), "Medium speechiness (" \o Fixed(speechiness, 3)
                        \o ") - possibly has vocals")
    ELSE NoScore

\* the high bracket subtracted instead of added
InstrumentalnessRule_Subtracted(instrumentalness) ==
    IF instrumentalness > 70 THEN
        Scored(-Pts(4), "High instrumentalness (" \o Fixed(instrumentalness, 3)
                        \o ") - strong instrumental indicator")
    ELSE IF instrumentalness > 50 THEN
        Scored(Pts(2), "Medium instrumentalness (" \o Fixed(instrumentalness, 3)
                       \o ") - likely instrumental")
    ELSE IF instrumentalness < 10 THEN
        Scored(-Pts(1), "Low instrumentalness (" \o Fixed(instrumentalness, 3)
                        \o ") - likely has vocals")
    ELSE NoScore

InstrumentalnessRule(instrumentalness) ==
    IF instrumentalness > 70 THEN
        Scored(Pts(4), "High instrumentalness (" \o Fixed(instrumentalness, 3)
                       \o ") - strong instrumental indicator")
    ELSE IF instrumentalness > 50 THEN
        Scored(Pts(2), "Medium instrumentalness (" \o Fixed(instrumentalness, 3)
                       \o ") - likely instrumental")
    ELSE IF instrumentalness < 10 THEN
        Scored(-Pts(1), "Low instrumentalness (" \o Fixed(instrumentalness, 3)
                        \o ") - likely has vocals")
    ELSE NoScore

EnergyRule(energy) ==
    IF energy < 30 THEN
        Scored(HalfPt, "Low energy (" \o Fixed(energy, 2)
                       \o ") - classical/ambient pattern")
    ELSE NoScore

DanceabilityRule(danceability, energy) ==
    IF danceability < 30 /\ energy < 40 THEN
        Scored(Pts(1), "Low danceability + energy - classical/meditative pattern")
    ELSE NoScore

analyze_audio_features(features) ==
    IF features = None \/ EmptyDict(features[1]) THEN NoScore
    ELSE
    LET f == features[1]
        speechiness == Get(f.speechiness, 0)
        instrumentalness == Get(f.instrumentalness, 0)
        energy == Get(f.energy, 0)
        valence == Get(f.valence, 0)
        danceability == Get(f.danceability, 0)
    IN  Accumulate(<<SpeechinessRule(speechiness),
                     InstrumentalnessRule(instrumentalness),
                     EnergyRule(energy),
                     DanceabilityRule(danceability, energy)>>)

(***************************************************************************)
(* analyze_genres                                                          *)
(***************************************************************************)
\* `if artist_info and 'genres' in artist_info`
HasGenres(artist_info) == artist_info # None /\ artist_info[1].genres # None

\* all_genres: the lower-cased genres of every artist that has any
RECURSIVE AllGenres(_)
AllGenres(infos) ==
    IF infos = <<>> THEN <<>>
    ELSE LET artist_info == Head(infos)
             own == IF HasGenres(artist_info)
                    THEN [k \in 1..Len(artist_info[1].genres[1]) |->
                             Lower(artist_info[1].genres[1][k])]
                    ELSE <<>>
         IN  own \o AllGenres(Tail(infos))

\* [genre for genre in all_genres if any(g in genre for g in INSTRUMENTAL_GENRES)]
InstrumentalMatches(all_genres) ==
    Filter(all_genres, [genre \in {all_genres[k] : k \in 1..Len(all_genres)} |->
                           Facts(genre).instrumental_genre])

\* [genre for genre in all_genres if any(g in genre for g in VOCAL_GENRES)]
VocalMatches(all_genres) ==
    Filter(all_genres, [genre \in {all_genres[k] : k \in 1..Len(all_genres)} |->
                           Facts(genre).vocal_genre])

\* the matches counted as a set: a genre two artists carry counts once
GenreScore_Distinct(all_genres) ==
    LET instrumental_matches == InstrumentalMatches(all_genres)
        vocal_matches == VocalMatches(all_genres)
        distinct(matches) == Cardinality({matches[k] : k \in 1..Len(matches)})
        inst ==
            IF instrumental_matches # <<>> THEN
                Scored(Pts(distinct(instrumental_matches) * 2),
                       "Instrumental genres found: "
                           \o Join(Take(instrumental_matches, 3)) \o "...")
            ELSE NoScore
        voc ==
            IF vocal_matches # <<>> THEN
                Scored(-Pts(distinct(vocal_matches)),
                       "Vocal genres found: " \o Join(Take(vocal_matches, 3)) \o "...")
            ELSE NoScore
    IN  Accumulate(<<inst, voc>>)

\* the scoring of analyze_genres, once all_genres is not empty
GenreScore(all_genres) ==
    LET instrumental_matches == InstrumentalMatches(all_genres)
        vocal_matches == VocalMatches(all_genres)
        inst ==
            IF instrumental_matches # <<>> THEN
                Scored(Pts(Len(instrumental_matches) * 2),
                       "Instrumental genres found: "
                           \o Join(Take(instrumental_matches, 3)) \o "...")
            ELSE NoScore
        voc ==
            IF vocal_matches # <<>> THEN
                Scored(-Pts(Len(vocal_matches)),
                       "Vocal genres found: " \o Join(Take(vocal_matches, 3)) \o "...")
            ELSE NoScore
    IN  Accumulate(<<inst, voc>>)

\* `'genres' in artist_info` without `artist_info and`: a TypeError on None
analyze_genres_Unguarded(infos) ==
    IF infos = None \/ infos[1] = <<>> THEN NoScore
    ELSE IF \E k \in 1..Len(infos[1]) : infos[1][k] = None THEN Raises
    ELSE LET all_genres == AllGenres(infos[1])
         IN  IF all_genres = <<>> THEN Scored(0, "No genre information available")
             ELSE GenreScore(all_genres)

analyze_genres(infos) ==
    IF infos = None \/ infos[1] = <<>> THEN NoScore
    ELSE LET all_genres == AllGenres(infos[1])
         IN  IF all_genres = <<>> THEN Scored(0, "No genre information available")
             ELSE GenreScore(all_genres)

(***************************************************************************)
(* is_likely_instrumental_advanced                                         *)
(***************************************************************************)
\* the strong keywords given the weight of the medium ones
StrongInstrumentalRule_MediumWeight(track_name) ==
    LET matching_keywords == Facts(track_name).strong_instrumental
    IN  IF matching_keywords # <<>>
        THEN Scored(Pts(2), "Strong instrumental keywords: "
                            \o Join(Take(matching_keywords, 2)))
        ELSE NoScore

\* step 1
StrongInstrumentalRule(track_name) ==
    LET matching_keywords == Facts(track_name).strong_instrumental
    IN  IF matching_keywords # <<>>
        THEN Scored(Pts(5), "Strong instrumental keywords: "
                            \o Join(Take(matching_keywords, 2)))
        ELSE NoScore

\* step 2
MediumInstrumentalRule(track_name) ==
    LET matching_keywords == Facts(track_name).medium_instrumental
    IN  IF matching_keywords # <<>>
        THEN Scored(Pts(2), "Medium instrumental keywords: "
                            \o Join(Take(matching_keywords, 2)))
        ELSE NoScore

\* the vocal keywords added instead of subtracted
StrongVocalRule_Added(track_name) ==
    LET matching_keywords == Facts(track_name).strong_vocal
    IN  IF matching_keywords # <<>>
        THEN Scored(Pts(4), "Strong vocal keywords: "
                            \o Join(Take(matching_keywords, 2)))
        ELSE NoScore

\* step 3
StrongVocalRule(track_name) ==
    LET matching_keywords == Facts(track_name).strong_vocal
    IN  IF matching_keywords # <<>>
        THEN Scored(-Pts(4), "Strong vocal keywords: "
                             \o Join(Take(matching_keywords, 2)))
        ELSE NoScore

\* for pattern in patterns: if re.search(pattern, ...): <score it>; break
\* hits[k] tells whether the k-th pattern is found in the track name
RECURSIVE PatternLoop(_, _, _, _)
PatternLoop(hits, k, delta, reason) ==
    IF k > Len(hits) THEN NoScore
    ELSE IF hits[k] THEN Scored(delta, reason)
    ELSE PatternLoop(hits, k + 1, delta, reason)

\* the loop without its break
InstrumentalPatternRule_NoBreak(track_name) ==
    LET hits == Facts(track_name).instrumental_pattern_hits
    IN  Accumulate([k \in 1..Len(hits) |->
                       IF hits[k] THEN Scored(Pts(3), "Matches instrumental pattern")
                       ELSE NoScore])

\* step 4, the two loops that stop at the first matching pattern
InstrumentalPatternRule(track_name) ==
    PatternLoop(Facts(track_name).instrumental_pattern_hits, 1,
                Pts(3), "Matches instrumental pattern")

\* the vocal patterns never tried
VocalPatternRule_Skipped(track_name) == NoScore

VocalPatternRule(track_name) ==
    PatternLoop(Facts(track_name).vocal_pattern_hits, 1,
                -Pts(3), "Matches vocal pattern")

\* the album matched against the medium keywords
AlbumRule_MediumKeywords(album_name) ==
    IF Facts(album_name).medium_instrumental # <<>>
    THEN Scored(Pts(1), "Album name suggests instrumental") ELSE NoScore

\* step 5
AlbumRule(album_name) ==
    IF Facts(album_name).strong_instrumental # <<>>
    THEN Scored(Pts(1), "Album name suggests instrumental") ELSE NoScore

\* step 6, one outcome per artist
ArtistRules(artist_names) ==
    [k \in 1..Len(artist_names) |->
        IF Facts(artist_names[k]).artist_type
        THEN Scored(Pts(2), "Artist type suggests instrumental: " \o artist_names[k])
        ELSE NoScore]

\* step 7
AudioRule(features) ==
    IF features # None /\ ~EmptyDict(features[1])
    THEN analyze_audio_features(features) ELSE NoScore

\* step 8
GenreRule(infos) ==
    IF infos # None /\ infos[1] # <<>> THEN analyze_genres(infos) ELSE NoScore

\* duration_min <= 0.5
DurationRule_Inclusive(duration_ms, strong_vocal_found) ==
    IF 2 * duration_ms <= 60000 THEN
        Scored(Pts(2), "Very short duration (" \o Minutes1(duration_ms)
                       \o "min) - likely intro/outro")
    ELSE IF duration_ms > 8 * 60000 /\ ~strong_vocal_found THEN
        Scored(Pts(1), "Long duration (" \o Minutes1(duration_ms)
                       \o "min) without vocal indicators")
    ELSE NoScore

\* step 9; duration_ms / 60000 < 0.5 and > 8 are compared in milliseconds
DurationRule(duration_ms, strong_vocal_found) ==
    IF 2 * duration_ms < 60000 THEN
        Scored(Pts(2), "Very short duration (" \o Minutes1(duration_ms)
                       \o "min) - likely intro/outro")
    ELSE IF duration_ms > 8 * 60000 /\ ~strong_vocal_found THEN
        Scored(Pts(1), "Long duration (" \o Minutes1(duration_ms)
                       \o "min) without vocal indicators")
    ELSE NoScore

\* the bonus given to every first track
TrackNumberRule_AnyFirstTrack(track_number, track_name) ==
    IF track_number = 1
    THEN Scored(Pts(1), "First track with 'intro' in name") ELSE NoScore

\* step 10
TrackNumberRule(track_number, track_name) ==
    IF track_number = 1 /\ Facts(track_name).intro
    THEN Scored(Pts(1), "First track with 'intro' in name") ELSE NoScore

\* total_score >= 1.5
AboveThreshold_Inclusive(total_score) == total_score >= Pts(1) + HalfPt

\* is_instrumental = total_score > 1.5
AboveThreshold(total_score) == total_score > Pts(1) + HalfPt

\* len([r for r in all_reasons if not r.startswith("No ")])
MethodCount(all_reasons) ==
    Len(Filter(all_reasons, [r \in {all_reasons[k] : k \in 1..Len(all_reasons)} |->
                                ~StartsWith(r, "No ")]))

\* the confidence_level the function computes and does not return
ConfidenceLevel(total_score, all_reasons) ==
    abs(total_score) + (IF MethodCount(all_reasons) >= 3 THEN HalfPt ELSE 0)

is_likely_instrumental_advanced(t, features, infos) ==
    LET track_name == Lower(t.name)
        artist_names == [k \in 1..Len(t.artists) |-> Lower(t.artists[k].name)]
        album_name == IF t.album # None THEN Lower(t.album[1].name) ELSE ""
        strong_vocal_found == Facts(track_name).strong_vocal # <<>>
        total ==
            Accumulate(<<StrongInstrumentalRule(track_name),
                         MediumInstrumentalRule(track_name),
                         StrongVocalRule(track_name),
                         InstrumentalPatternRule(track_name),
                         VocalPatternRule(track_name),
                         AlbumRule(album_name)>>
                       \o ArtistRules(artist_names)
                       \o <<AudioRule(features),
                            GenreRule(infos),
                            DurationRule(Get(t.duration_ms, 0), strong_vocal_found),
                            TrackNumberRule(Get(t.track_number, 0), track_name)>>)
    IN  IF t.album # None /\ "name" \notin DOMAIN t.album[1]
        THEN <<"raised", "KeyError">>           \* track['album']['name']
        ELSE IF total.raised THEN <<"raised", "Exception">>
        ELSE <<"returned", [is_instrumental |-> AboveThreshold(total.score),
                            total_score |-> total.score,
                            all_reasons |-> total.reasons]>>

(***************************************************************************)
(* safe_sp_call and is_indian_track (cultura_sort.py)                      *)
(***************************************************************************)
max_retries == 5

\* What the service answers to one call: <<"ok", value>>, <<"429">> (a
\* SpotifyException with http_status 429), <<"error">> (a SpotifyException
\* with another status) or <<"exception">> (any other exception).
\* safe_sp_call(responses) is the outcome of the retry loop when the k-th
\* invocation gets responses[k]; calls counts the invocations.
RECURSIVE SafeSpCallFrom(_, _)
SafeSpCallFrom(responses, retry_count) ==
    IF ~(retry_count < max_retries)
    THEN [raised |-> TRUE, value |-> None, calls |-> retry_count]
    ELSE LET response == responses[retry_count + 1]
         IN  IF response[1] = "ok"
             THEN [raised |-> FALSE, value |-> Some(response[2]), calls |-> retry_count + 1]
             ELSE IF response[1] = "429"
             THEN SafeSpCallFrom(responses, retry_count + 1)
             ELSE [raised |-> TRUE, value |-> None, calls |-> retry_count + 1]
safe_sp_call(responses) == SafeSpCallFrom(responses, 0)

\* the try block of is_indian_track: genre_match, False when anything raises
GenreMatch(t, responses) ==
    IF t.artists = <<>> THEN FALSE                       \* IndexError
    ELSE LET artist == safe_sp_call(responses)
         IN  IF artist.raised THEN FALSE
             ELSE LET genres == [k \in 1..Len(Get(artist.value[1].genres, <<>>)) |->
                                    Lower(Get(artist.value[1].genres, <<>>)[k])]
                  IN  \E k \in 1..Len(genres) : Facts(genres[k]).indian_genre

\* the genre lookup outside any try block
is_indian_track_Uncaught(t, responses) ==
    LET artist_names == [k \in 1..Len(t.artists) |-> Lower(t.artists[k].name)]
        artist_match == \E k \in 1..Len(artist_names) : Facts(artist_names[k]).indian_artist
        track_name == Lower(t.name)
        lang_match == Facts(track_name).indian_lang
        song_keyword_match == Facts(track_name).indian_song
        genre_match == GenreMatch(t, responses)
        album_match == IF t.album # None
                       THEN Facts(Lower(t.album[1].name)).indian_album ELSE FALSE
    IN  IF t.artists = <<>> \/ safe_sp_call(responses).raised
        THEN <<"raised", "Exception">>
        ELSE <<"returned",
               artist_match \/ lang_match \/ genre_match \/ song_keyword_match \/ album_match>>

is_indian_track(t, responses) ==
    LET artist_names == [k \in 1..Len(t.artists) |-> Lower(t.artists[k].name)]
        artist_match == \E k \in 1..Len(artist_names) : Facts(artist_names[k]).indian_artist
        track_name == Lower(t.name)
        lang_match == Facts(track_name).indian_lang
        song_keyword_match == Facts(track_name).indian_song
        genre_match == GenreMatch(t, responses)
        album_match == IF t.album # None
                       THEN Facts(Lower(t.album[1].name)).indian_album ELSE FALSE
    IN  <<"returned",
          artist_match \/ lang_match \/ genre_match \/ song_keyword_match \/ album_match>>

(***************************************************************************)
(* The inputs the programs are run on.                                     *)
(***************************************************************************)
SeqsUpTo(S, n) == UNION { [1..k -> S] : k \in 0..n }

Albums == {None} \cup {Some([name |-> a]) : a \in AlbumNames}

Durations == { None, Some(29999), Some(30000), Some(210000), Some(480000), Some(600000) }

TrackNumbers == { None, Some(1) }

Tracks ==
    [name : TrackNames, artists : SeqsUpTo({JaneDoe, Orchestra}, MaxArtists),
     album : Albums, duration_ms : Durations, track_number : TrackNumbers]

\* audio feature values, in hundredths: every bracket of speechiness and
\* instrumentalness at high energy, every energy and danceability bracket
\* at high speechiness, and dicts with instrumentalness or valence alone, or empty
AudioFeatureDicts ==
    [speechiness : {None, Some(3), Some(7), Some(20), Some(50)},
     instrumentalness : {None, Some(30), Some(60), Some(90)},
     energy : {Some(80)}, danceability : {Some(80)}, valence : {None}]
    \cup
    [speechiness : {Some(50)}, instrumentalness : {None, Some(90)},
     energy : {None, Some(35), Some(80)}, danceability : {None, Some(80)},
     valence : {None}]
    \cup
    [speechiness : {None}, instrumentalness : {None, Some(90)}, energy : {None},
     danceability : {None}, valence : {None, Some(50)}]

AudioFeatureInputs == {None} \cup {Some(f) : f \in AudioFeatureDicts}

\* what get_artist_info_batch may have fetched: artist id -> artist dict,
\* None for an artist it has nothing for
NoGenresKey(id) == Some([id |-> id, genres |-> None])
WithGenres(id, genres) == Some([id |-> id, genres |-> Some(genres)])
ArtistInfoTables == {
    [a1 |-> None, a2 |-> None],
    [a1 |-> NoGenresKey("a1"),
     a2 |-> WithGenres("a2", <<"Classical", "orchestral soundtrack">>)],
    [a1 |-> WithGenres("a1", <<"pop">>),
     a2 |-> WithGenres("a2", <<"indie pop", "classical crossover">>)],
    [a1 |-> WithGenres("a1", <<>>), a2 |-> None] }

\* None, or one entry per artist of the track, as main builds the list
ArtistInfoInputs(t) ==
    {None} \cup {Some([k \in 1..Len(t.artists) |-> table[t.artists[k].id]]) :
                    table \in ArtistInfoTables}

IndianTracks ==
    [name : IndianTrackNames, artists : SeqsUpTo({JaneDoe, ArijitSingh}, MaxArtists),
     album : {None} \cup {Some([name |-> a]) : a \in IndianAlbumNames}]

\* the artist dicts sp.artist may return
FetchedArtists == {
    [id |-> "a1", genres |-> None],
    [id |-> "a1", genres |-> Some(<<"pop">>)],
    [id |-> "a3", genres |-> Some(<<"Filmi", "modern bollywood">>)] }

\* the answers to successive sp.artist calls: rate limits, then an artist, an
\* error or another rate limit
ArtistResponses ==
    { [k \in 1..max_retries |-> IF k <= n THEN <<"429">> ELSE last] :
        n \in 0..(max_retries - 1),
        last \in {<<"429">>, <<"error">>, <<"exception">>}
                 \cup {<<"ok", a>> : a \in FetchedArtists} }

mainVars == <<tracks, all_artist_info, index, lyrical_tracks, instrumental_tracks,
              uncertain_tracks>>
callVars == <<callable_func, retries, invocations, slept>>
playlistVars == <<track_ids, playlist_add_items, attempted, added, user_playlists,
                  service>>

vars == <<pc, track, audio_features, artist_info_list, sp_artist, result,
          mainVars, callVars, playlistVars>>

\* the variables of the programs that are not being run
NoMain == tracks = None /\ all_artist_info = None /\ index = 0 /\ lyrical_tracks = None
          /\ instrumental_tracks = None /\ uncertain_tracks = None
NoCall == callable_func = None /\ retries = 0 /\ invocations = 0 /\ slept = 0
NoPlaylist == track_ids = None /\ playlist_add_items = None /\ attempted = None
              /\ added = None /\ user_playlists = None /\ service = None

(***************************************************************************)
(* ClassifySpec: one call of is_likely_instrumental_advanced, on any input *)
(***************************************************************************)
ClassifyInit ==
    /\ pc = "call"
    /\ track \in Tracks
    /\ audio_features \in AudioFeatureInputs
    /\ artist_info_list \in ArtistInfoInputs(track)
    /\ sp_artist = <<>>
    /\ result = None
    /\ NoMain /\ NoCall /\ NoPlaylist

Classify ==
    /\ pc = "call"
    /\ result' = is_likely_instrumental_advanced(track, audio_features,
                                                 artist_info_list)
    /\ pc' = "done"
    /\ UNCHANGED <<track, audio_features, artist_info_list, sp_artist>>
    /\ UNCHANGED <<mainVars, callVars, playlistVars>>

ClassifyNext == Classify

ClassifySpec == ClassifyInit /\ [][ClassifyNext]_vars

(***************************************************************************)
(* IndianSpec: one call of is_indian_track, on any track and any behaviour *)
(* of the service                                                          *)
(***************************************************************************)
IndianInit ==
    /\ pc = "call"
    /\ track \in IndianTracks
    /\ audio_features = None
    /\ artist_info_list = None
    /\ sp_artist \in ArtistResponses
    /\ result = None
    /\ NoMain /\ NoCall /\ NoPlaylist

IsIndian ==
    /\ pc = "call"
    /\ result' = is_indian_track(track, sp_artist)
    /\ pc' = "done"
    /\ UNCHANGED <<track, audio_features, artist_info_list, sp_artist>>
    /\ UNCHANGED <<mainVars, callVars, playlistVars>>

IndianNext == IsIndian

IndianSpec == IndianInit /\ [][IndianNext]_vars

(***************************************************************************)
(* MainSpec: the classification loop of VerseOrVibe's main, on a playlist  *)
(* of tracks and whatever the two batch fetches brought back               *)
(***************************************************************************)
MaxTracks == 2           \* longest source playlist

PianoSolo ==
    [id |-> "t1", name |-> "Piano Solo Instrumental", artists |-> <<Orchestra>>,
     album |-> Some([name |-> "Scores"]), duration_ms |-> Some(600000),
     track_number |-> Some(1)]
LoveSong ==
    [id |-> "t2", name |-> "Love Song (feat. John Smith)", artists |-> <<>>,
     album |-> None, duration_ms |-> Some(210000), track_number |-> None]
TumHiHo ==
    [id |-> "t3", name |-> "Tum Hi Ho", artists |-> <<JaneDoe>>,
     album |-> Some([name |-> "Scores"]), duration_ms |-> Some(210000),
     track_number |-> Some(1)]
Lost ==
    [id |-> "t4", name |-> "Lost", artists |-> <<JaneDoe>>,
     album |-> None, duration_ms |-> Some(210000), track_number |-> Some(2)]
BollywoodNights ==
    [id |-> "t5", name |-> "Bollywood Nights", artists |-> <<Orchestra>>,
     album |-> None, duration_ms |-> Some(210000), track_number |-> None]
\* a track whose album dict has no 'name'
Nameless ==
    [id |-> "t6", name |-> "Intro", artists |-> <<>>,
     album |-> Some([id |-> "al6"]), duration_ms |-> Some(29999),
     track_number |-> Some(1)]

PlaylistTracks == { PianoSolo, LoveSong, TumHiHo, Lost, BollywoodNights, Nameless }

Features(sp, ins, en, da) ==
    Some([speechiness |-> sp, instrumentalness |-> ins, energy |-> en,
          danceability |-> da, valence |-> Some(50)])

\* what get_audio_features_batch may have fetched: track id -> features dict,
\* None for a track it has nothing for
NoFeatures == [id \in {t.id : t \in PlaylistTracks} |-> None]
AudioFeatureTables == {
    NoFeatures,
    \* values between the brackets for "Tum Hi Ho", -3.5 for "Lost"
    [NoFeatures EXCEPT !["t3"] = Features(Some(12), Some(30), Some(80), Some(80)),
                       !["t4"] = Features(Some(50), None, None, Some(80))],
    [NoFeatures EXCEPT !["t2"] = Features(Some(3), Some(90), Some(35), Some(80)),
                       !["t3"] = Features(Some(3), Some(60), Some(80), Some(80)),
                       !["t5"] = Features(Some(20), Some(30), Some(80), Some(80))] }

\* confidence < 2
LowConfidence_Signed(confidence) == confidence < Pts(2)

\* abs(confidence) < 2
LowConfidence(confidence) == abs(confidence) < Pts(2)

TrackInfo(t, confidence, reasons) ==
    [id |-> t.id, name |-> t.name,
     artist |-> Join([k \in 1..Len(t.artists) |-> t.artists[k].name]),
     confidence |-> confidence, reasons |-> Take(reasons, 3)]

\* what one turn of the loop gets from the classifier
Classification(t) ==
    LET track_features == audio_features[t.id]
        track_artist_info ==
            Some([k \in 1..Len(t.artists) |-> all_artist_info[t.artists[k].id]])
    IN  is_likely_instrumental_advanced(t, track_features, track_artist_info)

MainInit ==
    /\ pc = "classify"
    /\ tracks \in SeqsUpTo(PlaylistTracks, MaxTracks) \ {<<>>}
    /\ audio_features \in AudioFeatureTables
    /\ all_artist_info \in ArtistInfoTables
    /\ index = 1
    /\ lyrical_tracks = <<>> /\ instrumental_tracks = <<>> /\ uncertain_tracks = <<>>
    /\ track = None /\ artist_info_list = None /\ sp_artist = <<>> /\ result = None
    /\ NoCall /\ NoPlaylist

\* one turn of `for i, track in enumerate(tracks, 1)`
ClassifyTrack ==
    /\ pc = "classify" /\ index <= Len(tracks)
    /\ \E outcome \in {Classification(tracks[index])} :
           LET t == tracks[index]
           IN
           IF outcome[1] = "raised"
           THEN UNCHANGED <<lyrical_tracks, instrumental_tracks, uncertain_tracks>>
           ELSE LET is_instrumental == outcome[2].is_instrumental
                    confidence == outcome[2].total_score
                    track_info == TrackInfo(t, confidence, outcome[2].all_reasons)
                IN  /\ instrumental_tracks' =
                          IF is_instrumental THEN Append(instrumental_tracks, track_info)
                          ELSE instrumental_tracks
                    /\ lyrical_tracks' =
                          IF is_instrumental THEN lyrical_tracks
                          ELSE Append(lyrical_tracks, track_info)
                    /\ uncertain_tracks' =
                          IF LowConfidence(confidence)
                          THEN Append(uncertain_tracks, track_info)
                          ELSE uncertain_tracks
    /\ index' = index + 1
    /\ pc' = IF index = Len(tracks) THEN "done" ELSE "classify"
    /\ UNCHANGED <<tracks, audio_features, all_artist_info>>
    /\ UNCHANGED <<track, artist_info_list, sp_artist, result, callVars, playlistVars>>

MainNext == ClassifyTrack

MainSpec == MainInit /\ [][MainNext]_vars

(***************************************************************************)
(* SafeCallSpec: safe_sp_call step by step, one action per turn of its     *)
(* while loop, around a callable that answers as the service pleases       *)
(***************************************************************************)
\* SpotifyException(http_status, headers = {"Retry-After": ...} or {})
SpotifyException(http_status, retry_after) ==
    <<"SpotifyException", [http_status |-> http_status, retry_after |-> retry_after]>>

RateLimits == { SpotifyException(429, None), SpotifyException(429, Some(2)) }

\* how an invocation of the callable can end
LastOutcomes ==
    { <<"ok", "response">>, <<"Exception", "ConnectionError">>,
      SpotifyException(401, None), SpotifyException(500, None) } \cup RateLimits

\* the outcomes of the successive invocations: rate limits, then anything;
\* the callable goes on answering as it last did
CallableOutcomes ==
    UNION { { limits \o <<last>> : limits \in [1..n -> RateLimits], last \in LastOutcomes } :
              n \in 0..(max_retries - 1) }

\* e.http_status == 429, of any status
IsRateLimit_AnyStatus(e) == TRUE

\* e.http_status == 429
IsRateLimit(e) == e.http_status = 429

\* int(e.headers.get("Retry-After", 5))
RetryAfter(e) == Get(e.retry_after, 5)

SafeCallInit ==
    /\ pc = "while"
    /\ callable_func \in CallableOutcomes
    /\ retries = 0 /\ invocations = 0 /\ slept = 0
    /\ result = None
    /\ track = None /\ audio_features = None /\ artist_info_list = None
    /\ sp_artist = <<>>
    /\ NoMain /\ NoPlaylist

\* the outcome of the invocation a turn of the loop makes
Outcome ==
    IF invocations < Len(callable_func) THEN callable_func[invocations + 1]
    ELSE callable_func[Len(callable_func)]

Entered == pc = "while" /\ retries < max_retries

\* return callable_func(*args, **kwargs)
CallReturns ==
    /\ Entered /\ Outcome[1] = "ok"
    /\ invocations' = invocations + 1
    /\ result' = <<"returned", Outcome[2]>>
    /\ pc' = "done"
    /\ UNCHANGED <<callable_func, retries, slept>>

\* except SpotifyException, status 429: sleep and go round again
CallRateLimited ==
    /\ Entered /\ Outcome[1] = "SpotifyException" /\ IsRateLimit(Outcome[2])
    /\ invocations' = invocations + 1
    /\ slept' = slept + RetryAfter(Outcome[2]) + 1
    /\ retries' = retries + 1
    /\ UNCHANGED <<pc, callable_func, result>>

\* except SpotifyException, any other status: raise e
CallReraises ==
    /\ Entered /\ Outcome[1] = "SpotifyException" /\ ~IsRateLimit(Outcome[2])
    /\ invocations' = invocations + 1
    /\ result' = <<"raised", Outcome>>
    /\ pc' = "done"
    /\ UNCHANGED <<callable_func, retries, slept>>

\* an exception that is no SpotifyException is not caught
CallPropagates ==
    /\ Entered /\ Outcome[1] = "Exception"
    /\ invocations' = invocations + 1
    /\ result' = <<"raised", Outcome>>
    /\ pc' = "done"
    /\ UNCHANGED <<callable_func, retries, slept>>

\* raise Exception("Rate limit exceeded maximum retries")
CallGivesUp ==
    /\ pc = "while" /\ ~(retries < max_retries)
    /\ result' = <<"raised", <<"Exception", "Rate limit exceeded maximum retries">>>>
    /\ pc' = "done"
    /\ UNCHANGED <<callable_func, retries, invocations, slept>>

SafeCallStep ==
    \/ CallReturns \/ CallRateLimited \/ CallReraises \/ CallPropagates \/ CallGivesUp

SafeCallNext ==
    /\ SafeCallStep
    /\ UNCHANGED <<track, audio_features, artist_info_list, sp_artist, mainVars,
                   playlistVars>>

\* the interpreter keeps running the function until it returns or raises
SafeCallSpec == SafeCallInit /\ [][SafeCallNext]_vars /\ WF_vars(SafeCallNext)

(***************************************************************************)
(* GenresSpec: one call of analyze_genres, on any list of artist dicts     *)
(***************************************************************************)
MaxGenreArtists == 3     \* longest artist_info_list handed to analyze_genres

\* an artist dict as fetched, or None for an artist nothing was fetched for
GenreArtists == {
    None, NoGenresKey("a1"), WithGenres("a1", <<>>), WithGenres("a1", <<"pop">>),
    WithGenres("a2", <<"Classical", "orchestral soundtrack">>),
    WithGenres("a4", <<"classical crossover", "post-rock">>),
    WithGenres("a5", <<"Classical", "ambient", "indie pop">>) }

GenresInit ==
    /\ pc = "call"
    /\ artist_info_list \in {None} \cup {Some(infos) : infos \in SeqsUpTo(GenreArtists, MaxGenreArtists)}
    /\ track = None /\ audio_features = None /\ sp_artist = <<>>
    /\ result = None
    /\ NoMain /\ NoCall /\ NoPlaylist

AnalyzeGenres ==
    /\ pc = "call"
    /\ LET outcome == analyze_genres(artist_info_list)
       IN  result' = IF outcome.raised THEN <<"raised", "TypeError">>
                     ELSE <<"returned", [score |-> outcome.score,
                                         reasons |-> outcome.reasons]>>
    /\ pc' = "done"
    /\ UNCHANGED <<track, audio_features, artist_info_list, sp_artist>>
    /\ UNCHANGED <<mainVars, callVars, playlistVars>>

GenresNext == AnalyzeGenres

GenresSpec == GenresInit /\ [][GenresNext]_vars

(***************************************************************************)
(* AddSpec: add_tracks_to_playlist, one action per turn of its loop, each  *)
(* turn with the whole safe_sp_call it makes                               *)
(***************************************************************************)
MaxChunks == 3           \* most chunks a track list needs

ChunkSize == 100         \* the 100 of range(0, len(track_ids), 100)

\* how many track ids there are to add
IdCounts ==
    {0, 1, ChunkSize - 1} \cup {ChunkSize * k : k \in 1..MaxChunks}
        \cup {ChunkSize * k + 1 : k \in 1..(MaxChunks - 1)}
        \cup {ChunkSize * (MaxChunks - 1) + 50}

\* (len(track_ids) + 99) // 100
TotalChunks(n) == (n + ChunkSize - 1) \div ChunkSize

\* what the service answers to the invocations made for one chunk: accepted,
\* accepted after a rate limit, refused, or rate limited every time
AddAnswers ==
    { [k \in 1..max_retries |-> IF k <= limited THEN <<"429">> ELSE last] :
        limited \in {0, 1}, last \in {<<"ok", "snapshot">>, <<"error">>} }
    \cup { [k \in 1..max_retries |-> <<"429">>] }

\* track_ids[i:i+101]
Chunk_OneMore(ids, start) ==
    SubSeq(ids, start + 1,
           IF start + ChunkSize + 1 < Len(ids) THEN start + ChunkSize + 1 ELSE Len(ids))

\* track_ids[i:i+100]
Chunk(ids, start) ==
    SubSeq(ids, start + 1,
           IF start + ChunkSize < Len(ids) THEN start + ChunkSize ELSE Len(ids))

AddInit ==
    /\ pc = "call"
    /\ \E n \in IdCounts :
          /\ track_ids = [k \in 1..n |-> k]
          /\ playlist_add_items \in [1..TotalChunks(n) -> AddAnswers]
    /\ index = 0
    /\ attempted = <<>> /\ added = <<>>
    /\ user_playlists = None /\ service = None
    /\ result = None
    /\ track = None /\ audio_features = None /\ artist_info_list = None
    /\ sp_artist = <<>>
    /\ tracks = None /\ all_artist_info = None /\ lyrical_tracks = None
    /\ instrumental_tracks = None /\ uncertain_tracks = None
    /\ NoCall

\* if not track_ids: return
AddNothing ==
    /\ pc = "call" /\ track_ids = <<>>
    /\ result' = <<"returned", None>>
    /\ pc' = "done"
    /\ UNCHANGED <<index, attempted, added>>

\* one turn of `for i in range(0, len(track_ids), 100)`
AddChunk ==
    /\ pc \in {"call", "for"} /\ track_ids # <<>> /\ index < Len(track_ids)
    /\ LET chunk == Chunk(track_ids, index)
           call == safe_sp_call(playlist_add_items[index \div ChunkSize + 1])
       IN  /\ attempted' = Append(attempted, chunk)
           /\ added' = IF call.raised THEN added      \* except Exception: print
                       ELSE Append(added, chunk)
    /\ index' = index + ChunkSize
    /\ IF index + ChunkSize < Len(track_ids)
       THEN pc' = "for" /\ UNCHANGED result
       ELSE pc' = "done" /\ result' = <<"returned", None>>

AddNext ==
    /\ AddNothing \/ AddChunk
    /\ UNCHANGED <<track_ids, playlist_add_items, user_playlists, service>>
    /\ UNCHANGED <<track, audio_features, artist_info_list, sp_artist>>
    /\ UNCHANGED <<tracks, all_artist_info, lyrical_tracks, instrumental_tracks,
                   uncertain_tracks, callVars>>

AddSpec == AddInit /\ [][AddNext]_vars

(***************************************************************************)
(* PlaylistSpec: get_or_create_playlist, the look-up and the creation; the *)
(* service lists the user's playlists a page at a time                     *)
(***************************************************************************)
PageLimit == 50          \* the limit=50 of sp.current_user_playlists

LYRICAL_PLAYLIST_NAME == "International Songs - Lyrical"

\* how many playlists the user owns, and where one of the wanted name may be
PlaylistCounts == {0, 1, PageLimit - 1, PageLimit, PageLimit + 1, PageLimit + 10}
NamedAt == {1, PageLimit, PageLimit + 1}

UserPlaylists ==
    { [k \in 1..n |-> [id |-> k,
                       name |-> IF k \in at THEN LYRICAL_PLAYLIST_NAME ELSE "Mix"]] :
        n \in PlaylistCounts, at \in SUBSET NamedAt }

\* what the service answers to the invocations made for one call: at once,
\* after a rate limit, with an error, or with rate limits only
ServiceAnswers ==
    { [k \in 1..max_retries |-> IF k <= limited THEN <<"429">> ELSE last] :
        limited \in {0, 1}, last \in {<<"ok", "response">>, <<"error">>} }
    \cup { [k \in 1..max_retries |-> <<"429">>] }

\* sp.current_user_playlists(limit=50)['items']: the first page
FirstPage(playlists) == Take(playlists, PageLimit)

\* the playlist user_playlist_create makes; the service gives it a fresh id
NewPlaylist(name) == [id |-> 0, name |-> name]

PlaylistInit ==
    /\ pc = "call"
    /\ user_playlists \in UserPlaylists
    /\ service \in [current_user_playlists : ServiceAnswers,
                    user_playlist_create : ServiceAnswers]
    /\ result = None
    /\ track_ids = None /\ playlist_add_items = None /\ attempted = None
    /\ added = None
    /\ track = None /\ audio_features = None /\ artist_info_list = None
    /\ sp_artist = <<>>
    /\ NoMain /\ NoCall

\* the look-up: list the playlists, return the id of the first one named
\* name, go on to create one when there is none, raise when the call fails
FindPlaylist ==
    /\ pc = "call"
    /\ LET listing == safe_sp_call(service.current_user_playlists)
           playlists == FirstPage(user_playlists)
           found == {k \in 1..Len(playlists) : playlists[k].name = LYRICAL_PLAYLIST_NAME}
       IN  IF listing.raised
           THEN pc' = "done" /\ result' = <<"raised", "Exception">>
           ELSE IF found # {}
           THEN /\ pc' = "done"
                /\ result' = <<"returned",
                               playlists[CHOOSE k \in found : \A j \in found : k <= j].id>>
           ELSE pc' = "create" /\ UNCHANGED result
    /\ UNCHANGED user_playlists

\* the creation: sp.user_playlist_create, raise when the call fails
CreatePlaylist ==
    /\ pc = "create"
    /\ LET creation == safe_sp_call(service.user_playlist_create)
           new_playlist == NewPlaylist(LYRICAL_PLAYLIST_NAME)
       IN  IF creation.raised
           THEN result' = <<"raised", "Exception">> /\ UNCHANGED user_playlists
           ELSE /\ user_playlists' = Append(user_playlists, new_playlist)
                /\ result' = <<"returned", new_playlist.id>>
    /\ pc' = "done"

PlaylistNext ==
    /\ FindPlaylist \/ CreatePlaylist
    /\ UNCHANGED <<service, track_ids, playlist_add_items, attempted, added>>
    /\ UNCHANGED <<track, audio_features, artist_info_list, sp_artist, mainVars,
                   callVars>>

PlaylistSpec == PlaylistInit /\ [][PlaylistNext]_vars

(***************************************************************************)
(* The rules as the specification states them, from the inputs alone, in   *)
(* half points.                                                            *)
(***************************************************************************)
Returned == pc = "done" /\ result[1] = "returned"
Score == result[2].total_score
Label == result[2].is_instrumental
Reasons == result[2].all_reasons
HasReason(prefix) == \E k \in 1..Len(Reasons) : StartsWith(Reasons[k], prefix)

If(b, n) == IF b THEN n ELSE 0
NameOf(t) == Facts(Lower(t.name))

StrongInstrumentalIn(t) == NameOf(t).strong_instrumental # <<>>
MediumInstrumentalIn(t) == NameOf(t).medium_instrumental # <<>>
StrongVocalIn(t) == NameOf(t).strong_vocal # <<>>

NamePart(t) ==
    If(StrongInstrumentalIn(t), 10) + If(MediumInstrumentalIn(t), 4)
        - If(StrongVocalIn(t), 8)
        + If(NameOf(t).instrumental_pattern, 6) - If(NameOf(t).vocal_pattern, 6)

AlbumPart(t) ==
    If(t.album # None /\ Facts(Lower(t.album[1].name)).strong_instrumental # <<>>, 2)

ArtistPart(t) ==
    4 * Cardinality({k \in 1..Len(t.artists) : Facts(Lower(t.artists[k].name)).artist_type})

DurationPart(t) ==
    LET ms == Get(t.duration_ms, 0)
    IN  IF ms < 30000 THEN 4
        ELSE IF ms > 480000 /\ ~StrongVocalIn(t) THEN 2
        ELSE 0

PositionPart(t) == If(t.track_number = Some(1) /\ NameOf(t).intro, 2)

AudioAbsent(features) == features = None \/ EmptyDict(features[1])

\* the audio sub-score of a dict that is there
AudioPart(features) ==
    LET f == features[1]
        sp == Get(f.speechiness, 0)
        ins == Get(f.instrumentalness, 0)
        en == Get(f.energy, 0)
        da == Get(f.danceability, 0)
    IN  (IF sp < 5 THEN 6 ELSE IF sp < 10 THEN 4 ELSE IF sp > 30 THEN -6
         ELSE IF sp > 15 THEN -2 ELSE 0)
        + (IF ins > 70 THEN 8 ELSE IF ins > 50 THEN 4 ELSE IF ins < 10 THEN -2 ELSE 0)
        + If(en < 30, 1) + If(da < 30 /\ en < 40, 2)

\* the genre tags of the artists that have any: <<artist index, tag index>>
GenreTags(infos) ==
    IF infos = None THEN {}
    ELSE UNION { IF infos[1][a] # None /\ infos[1][a][1].genres # None
                 THEN {<<a, g>> : g \in 1..Len(infos[1][a][1].genres[1])}
                 ELSE {} : a \in 1..Len(infos[1]) }
TagAt(infos, p) == Lower(infos[1][p[1]][1].genres[1][p[2]])
InstrumentalTags(infos) == {p \in GenreTags(infos) : Facts(TagAt(infos, p)).instrumental_genre}
VocalTags(infos) == {p \in GenreTags(infos) : Facts(TagAt(infos, p)).vocal_genre}

GenreAbsent(infos) == GenreTags(infos) = {}
GenrePart(infos) ==
    4 * Cardinality(InstrumentalTags(infos)) - 2 * Cardinality(VocalTags(infos))

(***************************************************************************)
(* Claims about is_likely_instrumental_advanced (ClassifySpec).            *)
(***************************************************************************)
NoVocalSignal ==
    /\ ~StrongVocalIn(track)
    /\ ~NameOf(track).vocal_pattern
    /\ VocalTags(artist_info_list) = {}

\* C1, as stated: every track with a strong-instrumental keyword in its name
\* and no strong-vocal keyword, no vocal-pattern match and no vocal-genre tag
\* scores above 1.5 and is labelled instrumental, whatever the audio features,
\* album, artists, duration and track number are.
C1_StrongKeywordMakesInstrumental ==
    (pc = "done" /\ StrongInstrumentalIn(track) /\ NoVocalSignal)
        => (Returned /\ Score > 3 /\ Label)

\* C1, amended: the same, for the tracks whose audio features are absent or
\* add up to more than -3.5 points.
C1_StrongKeywordMakesInstrumentalUnlessAudioAgainst ==
    (/\ pc = "done" /\ StrongInstrumentalIn(track) /\ NoVocalSignal
     /\ (AudioAbsent(audio_features) \/ AudioPart(audio_features) > -7))
        => (Returned /\ Score > 3 /\ Label)

C1_Witness ==
    /\ Returned /\ StrongInstrumentalIn(track) /\ NoVocalSignal
    /\ ~AudioAbsent(audio_features) /\ AudioPart(audio_features) = -6
    /\ Label

NoInstrumentalSignal ==
    /\ ~StrongInstrumentalIn(track) /\ ~MediumInstrumentalIn(track)
    /\ ~NameOf(track).instrumental_pattern
    /\ AlbumPart(track) = 0 /\ ArtistPart(track) = 0
    /\ (AudioAbsent(audio_features) \/ AudioPart(audio_features) <= 0)
    /\ GenrePart(artist_info_list) <= 0
    /\ DurationPart(track) = 0 /\ PositionPart(track) = 0

\* C2: a track with a strong-vocal keyword in its name for which no
\* instrumental rule contributes (no strong or medium instrumental keyword, no
\* instrumental pattern, no album or artist-type bonus, no positive audio or
\* genre sub-score, no duration or position bonus) scores at most 1.5 and is
\* labelled lyrical.
C2_StrongVocalKeywordMakesLyrical ==
    (pc = "done" /\ StrongVocalIn(track) /\ NoInstrumentalSignal)
        => (Returned /\ Score <= 3 /\ ~Label)

C2_Witness ==
    /\ Returned /\ StrongVocalIn(track) /\ NoInstrumentalSignal
    /\ ~NameOf(track).vocal_pattern /\ ~AudioAbsent(audio_features)
    /\ ~Label

\* the delta that goes with a reason of the result
ReasonDelta(reason) ==
    CASE StartsWith(reason, "Strong instrumental keywords: ") -> 10
      [] StartsWith(reason, "Medium instrumental keywords: ") -> 4
      [] StartsWith(reason, "Strong vocal keywords: ") -> -8
      [] reason = "Matches instrumental pattern" -> 6
      [] reason = "Matches vocal pattern" -> -6
      [] reason = "Album name suggests instrumental" -> 2
      [] StartsWith(reason, "Artist type suggests instrumental: ") -> 4
      [] StartsWith(reason, "Very low speechiness") -> 6
      [] StartsWith(reason, "Low speechiness") -> 4
      [] StartsWith(reason, "High speechiness") -> -6
      [] StartsWith(reason, "Medium speechiness") -> -2
      [] StartsWith(reason, "High instrumentalness") -> 8
      [] StartsWith(reason, "Medium instrumentalness") -> 4
      [] StartsWith(reason, "Low instrumentalness") -> -2
      [] StartsWith(reason, "Low energy") -> 1
      [] StartsWith(reason, "Low danceability + energy") -> 2
      [] StartsWith(reason, "Instrumental genres found: ") ->
            4 * Cardinality(InstrumentalTags(artist_info_list))
      [] StartsWith(reason, "Vocal genres found: ") ->
            -2 * Cardinality(VocalTags(artist_info_list))
      [] reason = "No genre information available" -> 0
      [] StartsWith(reason, "Very short duration") -> 4
      [] StartsWith(reason, "Long duration") -> 2
      [] reason = "First track with 'intro' in name" -> 2

RECURSIVE SumOfDeltas(_)
SumOfDeltas(reasons) ==
    IF reasons = <<>> THEN 0
    ELSE ReasonDelta(Head(reasons)) + SumOfDeltas(Tail(reasons))

\* C3: the label is instrumental exactly when the returned score is strictly
\* above 1.5, and the score is the sum of the deltas of the rules that fired
\* (those the result gives a reason for) and nothing else.
C3_LabelIsScoreAboveThreshold ==
    Returned => /\ Label <=> (Score > 3)
                /\ Score = SumOfDeltas(Reasons)

\* a score of exactly 1.5, which is lyrical
C3_Witness == Returned /\ Score = 3 /\ ~Label /\ Len(Reasons) >= 3

WithoutInstrumentalness(features) ==
    Some([features[1] EXCEPT !.instrumentalness = None])

\* C5: with instrumentalness = 0.9 in the audio features the score is strictly
\* greater than for the same track with the same features lacking the
\* instrumentalness attribute.
C5_InstrumentalnessRaisesScore ==
    (/\ Returned /\ audio_features # None
     /\ audio_features[1].instrumentalness = Some(90))
        => LET without == is_likely_instrumental_advanced(
                              track, WithoutInstrumentalness(audio_features),
                              artist_info_list)
           IN  without[1] = "returned" /\ Score > without[2].total_score

C5_Witness ==
    /\ Returned /\ audio_features # None
    /\ audio_features[1].instrumentalness = Some(90)
    /\ audio_features[1].speechiness = Some(50)
    /\ HasReason("High instrumentalness")

\* the score without the duration rule
OtherThanDuration ==
    NamePart(track) + AlbumPart(track) + ArtistPart(track)
        + (IF AudioAbsent(audio_features) THEN 0 ELSE AudioPart(audio_features))
        + GenrePart(artist_info_list) + PositionPart(track)

\* C6: a track of 30000 ms does not get the +2 short-duration bonus, the same
\* track at 29999 ms does, and no track gets both the short-duration and the
\* long-duration bonus.
C6_ShortDurationBoundary ==
    Returned =>
        /\ track.duration_ms = Some(30000) =>
              ~HasReason("Very short duration") /\ Score = OtherThanDuration
        /\ track.duration_ms = Some(29999) =>
              HasReason("Very short duration") /\ Score = OtherThanDuration + 4
        /\ ~(HasReason("Very short duration") /\ HasReason("Long duration"))

C6_Witness ==
    /\ Returned /\ track.duration_ms = Some(30000)
    /\ ~HasReason("Very short duration") /\ ~HasReason("Long duration")

NoGenreData == artist_info_list = None \/ GenreAbsent(artist_info_list)

IsPianoSoloExample ==
    /\ track.name = "Piano Solo Instrumental" /\ track.artists = <<JaneDoe>>
    /\ track.duration_ms = Some(600000) /\ track.album = Some([name |-> "Scores"])
    /\ audio_features = None /\ NoGenreData

\* C7, as stated: for "Piano Solo Instrumental" by Jane Doe, 600000 ms, album
\* "Scores", no audio features and no genre data, the strong-instrumental
\* keyword rule, the instrumental pattern rule and the album bonus all fire,
\* the score is at least 9 and the label is instrumental.
C7_PianoSoloWithAlbumBonus ==
    (pc = "done" /\ IsPianoSoloExample) =>
        /\ Returned
        /\ HasReason("Strong instrumental keywords: ")
        /\ HasReason("Matches instrumental pattern")
        /\ HasReason("Album name suggests instrumental")
        /\ Score >= 18 /\ Label

\* C7, amended: for that track the strong-instrumental keyword rule (+5), the
\* instrumental pattern rule (+3) and the long-duration bonus (+1) fire, the
\* album bonus does not, the score is exactly 9 and the label is instrumental.
C7_PianoSoloWithLongDurationBonus ==
    (pc = "done" /\ IsPianoSoloExample) =>
        /\ Returned
        /\ HasReason("Strong instrumental keywords: ")
        /\ HasReason("Matches instrumental pattern")
        /\ HasReason("Long duration")
        /\ ~HasReason("Album name suggests instrumental")
        /\ Score = 18 /\ Label

C7_Witness == Returned /\ IsPianoSoloExample /\ artist_info_list = None

IsLoveSongExample ==
    /\ track.name = "Love Song (feat. John Smith)" /\ track.artists = <<>>
    /\ track.duration_ms = Some(210000) /\ track.album = None
    /\ audio_features = None /\ NoGenreData

\* C8: for "Love Song (feat. John Smith)", 210000 ms, no artists, no album and
\* no enrichment data, the strong-vocal keyword rule and the vocal pattern
\* rule fire and no other rule does, the score is at most -7 and the label is
\* lyrical.
C8_LoveSongIsLyrical ==
    (pc = "done" /\ IsLoveSongExample) =>
        /\ Returned
        /\ Reasons = <<"Strong vocal keywords: feat.", "Matches vocal pattern">>
        /\ Score <= -14 /\ ~Label

C8_Witness == Returned /\ IsLoveSongExample /\ artist_info_list = None

\* the score the rules give for the inputs that are there
PresentPartsSum ==
    NamePart(track) + AlbumPart(track) + DurationPart(track) + PositionPart(track)
        + (IF track.artists = <<>> THEN 0 ELSE ArtistPart(track))
        + (IF AudioAbsent(audio_features) THEN 0 ELSE AudioPart(audio_features))
        + (IF NoGenreData THEN 0 ELSE GenrePart(artist_info_list))

SomeInputAbsent ==
    AudioAbsent(audio_features) \/ NoGenreData \/ track.artists = <<>>

\* C10: when the audio features are absent, the genre data are absent (no
\* list, an empty list, None entries or artists without genres) or the artist
\* list is empty, the call returns without raising and the score is the sum
\* of the deltas of the remaining rules.
C10_AbsentInputsAddNothing ==
    (pc = "done" /\ SomeInputAbsent) => (Returned /\ Score = PresentPartsSum)

\* a failed artist lookup next to genre-less data, and no audio features
C10_Witness ==
    /\ Returned /\ audio_features = None
    /\ artist_info_list # None /\ artist_info_list # Some(<<>>) /\ NoGenreData
    /\ Score = PresentPartsSum /\ Score # 0

(***************************************************************************)
(* Claims about is_indian_track (IndianSpec).                              *)
(***************************************************************************)
ArtistCheck == \E k \in 1..Len(track.artists) :
                   Facts(Lower(track.artists[k].name)).indian_artist
LangCheck == NameOf(track).indian_lang
SongCheck == NameOf(track).indian_song
AlbumCheck == track.album # None /\ Facts(Lower(track.album[1].name)).indian_album

\* the invocations of sp.artist that are answered, all earlier ones being
\* rate limited: at most one
Answered == { k \in 1..max_retries :
                /\ sp_artist[k][1] = "ok"
                /\ \A j \in 1..(k - 1) : sp_artist[j][1] = "429" }
GenreCheck ==
    /\ track.artists # <<>>
    /\ \E k \in Answered :
          LET genres == Get(sp_artist[k][2].genres, <<>>)
          IN  \E g \in 1..Len(genres) : Facts(Lower(genres[g])).indian_genre

\* C9: is_indian_track returns True exactly when one of its five checks is
\* true; a track with an artist of POPULAR_INDIAN_ARTISTS is Indian whatever
\* the other checks yield, also when the genre lookup fails.
C9_IndianIffSomeCheck ==
    pc = "done" =>
        /\ result = <<"returned",
                      ArtistCheck \/ LangCheck \/ SongCheck \/ GenreCheck \/ AlbumCheck>>
        /\ ArtistCheck => result = <<"returned", TRUE>>

\* "Tum Hi Ho" by Arijit Singh, the lookup failing and no other check true
C9_Witness ==
    /\ pc = "done" /\ track.name = "Tum Hi Ho" /\ track.artists = <<ArijitSingh>>
    /\ ArtistCheck /\ ~LangCheck /\ ~SongCheck /\ ~AlbumCheck
    /\ Answered = {} /\ result = <<"returned", TRUE>>

(***************************************************************************)
(* Claims about the classification loop of main (MainSpec).                *)
(***************************************************************************)
WellFormed(t) == t.album = None \/ "name" \in DOMAIN t.album[1]

\* what the loop hands to the classifier for track t
FeaturesOf(t) == audio_features[t.id]
InfosOf(t) == Some([k \in 1..Len(t.artists) |-> all_artist_info[t.artists[k].id]])

\* no audio rule has anything to say about the features
AudioSilent(features) ==
    \/ AudioAbsent(features)
    \/ LET f == features[1]
           sp == Get(f.speechiness, 0)
           ins == Get(f.instrumentalness, 0)
           en == Get(f.energy, 0)
           da == Get(f.danceability, 0)
       IN  /\ sp >= 10 /\ sp <= 15
           /\ ins >= 10 /\ ins <= 50
           /\ en >= 30
           /\ ~(da < 30 /\ en < 40)

\* no rule of any category fires for track t
NoRuleFires(t) ==
    /\ ~StrongInstrumentalIn(t) /\ ~MediumInstrumentalIn(t) /\ ~StrongVocalIn(t)
    /\ ~NameOf(t).instrumental_pattern /\ ~NameOf(t).vocal_pattern
    /\ AlbumPart(t) = 0 /\ ArtistPart(t) = 0
    /\ AudioSilent(FeaturesOf(t))
    /\ InstrumentalTags(InfosOf(t)) = {} /\ VocalTags(InfosOf(t)) = {}
    /\ DurationPart(t) = 0 /\ PositionPart(t) = 0

\* the tracks the loop is done with
Processed == {tracks[k] : k \in 1..(index - 1)}
Times(t) == Cardinality({k \in 1..(index - 1) : tracks[k] = t})
CountIn(track_infos, t) ==
    Cardinality({k \in 1..Len(track_infos) : track_infos[k].id = t.id})
InfoOf(track_infos, t) ==
    {track_infos[k] : k \in {j \in 1..Len(track_infos) : track_infos[j].id = t.id}}

\* C11: a track for which no rule of any category fires gets a score of 0, is
\* labelled lyrical and is put on the uncertain (low-confidence) list by main.
C11_NoSignalIsLyricalAndUncertain ==
    \A t \in Processed :
        (WellFormed(t) /\ NoRuleFires(t)) =>
            /\ Classification(t)[1] = "returned"
            /\ Classification(t)[2].total_score = 0
            /\ ~Classification(t)[2].is_instrumental
            /\ CountIn(instrumental_tracks, t) = 0
            /\ CountIn(lyrical_tracks, t) = Times(t)
            /\ CountIn(uncertain_tracks, t) = Times(t)
            /\ \A info \in InfoOf(uncertain_tracks, t) : info.confidence = 0

\* "Tum Hi Ho" with audio features between the brackets and an artist that
\* was fetched without any genre
C11_Witness ==
    /\ pc = "done" /\ TumHiHo \in Processed /\ NoRuleFires(TumHiHo)
    /\ audio_features["t3"] # None /\ all_artist_info["a1"] # None
    /\ CountIn(uncertain_tracks, TumHiHo) >= 1
    /\ CountIn(lyrical_tracks, TumHiHo) >= 1

\* C12: every track whose classification does not raise is appended to
\* exactly one of lyrical_tracks and instrumental_tracks, the one of its
\* label, and is also appended to uncertain_tracks exactly when |score| < 2,
\* whatever the label.
C12_OneListPerTrackAndUncertainIffLow ==
    \A t \in Processed :
        (WellFormed(t) /\ Classification(t)[1] = "returned") =>
            LET r == Classification(t)[2]
                low == r.total_score > -4 /\ r.total_score < 4
            IN  /\ CountIn(instrumental_tracks, t) = If(r.is_instrumental, Times(t))
                /\ CountIn(lyrical_tracks, t) = If(~r.is_instrumental, Times(t))
                /\ CountIn(uncertain_tracks, t) = If(low, Times(t))
                /\ \A info \in InfoOf(lyrical_tracks, t) \cup InfoOf(instrumental_tracks, t)
                                \cup InfoOf(uncertain_tracks, t) :
                       info.confidence = r.total_score

\* a confident lyrical track after an uncertain one
C12_Witness ==
    /\ pc = "done" /\ tracks = <<Lost, LoveSong>>
    /\ Len(lyrical_tracks) = 2 /\ Len(uncertain_tracks) = 1
    /\ uncertain_tracks[1].id = "t4" /\ uncertain_tracks[1].confidence = 3

\* C19: every score is a multiple of 0.5, so that an instrumental track
\* (score > 1.5) has |score| >= 2; no track of instrumental_tracks is in
\* uncertain_tracks, and uncertain_tracks is within lyrical_tracks.
C19_InstrumentalNeverUncertain ==
    /\ \A k \in 1..Len(instrumental_tracks) :
          /\ instrumental_tracks[k].confidence \in Int
          /\ instrumental_tracks[k].confidence >= 4
          /\ \A u \in 1..Len(uncertain_tracks) :
                uncertain_tracks[u].id # instrumental_tracks[k].id
    /\ \A u \in 1..Len(uncertain_tracks) :
          \E k \in 1..Len(lyrical_tracks) : lyrical_tracks[k] = uncertain_tracks[u]

\* an instrumental track with a score of exactly 2 next to an uncertain one
C19_Witness ==
    /\ pc = "done" /\ Len(uncertain_tracks) = 1
    /\ \E k \in 1..Len(instrumental_tracks) : instrumental_tracks[k].confidence = 4

(***************************************************************************)
(* Claims about safe_sp_call (SafeCallSpec).                               *)
(***************************************************************************)
Invoked(k) == callable_func[IF k < Len(callable_func) THEN k ELSE Len(callable_func)]
Was429(k) == Invoked(k)[1] = "SpotifyException" /\ Invoked(k)[2].http_status = 429

\* the seconds to wait after the first n invocations, all rate limited
RECURSIVE Waits(_)
Waits(n) ==
    IF n = 0 THEN 0
    ELSE Waits(n - 1) + 1 + (IF Invoked(n)[2].retry_after = None THEN 5
                              ELSE Invoked(n)[2].retry_after[1])

SafeCallOutcome ==
    /\ invocations <= 5
    /\ \A k \in 1..(invocations - 1) : Was429(k)
    /\ pc = "while" => \A k \in 1..invocations : Was429(k)
    /\ pc = "done" =>
          LET last == Invoked(invocations)
          IN  IF Was429(invocations)
              THEN /\ invocations = 5
                   /\ slept = Waits(5)
                   /\ result[1] = "raised" /\ result[2][1] = "Exception"
              ELSE /\ slept = Waits(invocations - 1)
                   /\ IF last[1] = "ok" THEN result = <<"returned", last[2]>>
                      ELSE result = <<"raised", last>>

\* C13: safe_sp_call ends after at most 5 invocations of the callable; it
\* returns what the first successful invocation returned; after a 429 it
\* waits and invokes again; an exception of another status is raised again at
\* once, with no further invocation; after the 5th 429 in a row it raises.
C13_SafeCallEndsWithinFiveInvocations ==
    /\ []SafeCallOutcome
    /\ <>(pc = "done")

\* five rate limits in a row
C13_Witness ==
    /\ pc = "done" /\ invocations = 5 /\ retries = 5 /\ Was429(5)
    /\ result[1] = "raised" /\ slept > 5

(***************************************************************************)
(* Claims about the pattern rules (ClassifySpec).                          *)
(***************************************************************************)
HowMany(hits) == Cardinality({k \in 1..Len(hits) : hits[k]})
TimesGiven(reason) == Cardinality({k \in 1..Len(Reasons) : Reasons[k] = reason})

\* the score without the two pattern rules
OtherThanPatterns ==
    If(StrongInstrumentalIn(track), 10) + If(MediumInstrumentalIn(track), 4)
        - If(StrongVocalIn(track), 8)
        + AlbumPart(track) + ArtistPart(track)
        + (IF AudioAbsent(audio_features) THEN 0 ELSE AudioPart(audio_features))
        + GenrePart(artist_info_list) + DurationPart(track) + PositionPart(track)

\* C14: the instrumental patterns add exactly +3 and one reason when at least
\* one of them matches the track name and nothing otherwise, the vocal
\* patterns exactly -3 and one reason when at least one of them matches and
\* nothing otherwise, however many match, each list on its own.
C14_PatternsCountOnce ==
    Returned =>
        LET inst == HowMany(NameOf(track).instrumental_pattern_hits) >= 1
            voc == HowMany(NameOf(track).vocal_pattern_hits) >= 1
        IN  /\ TimesGiven("Matches instrumental pattern") = If(inst, 1)
            /\ TimesGiven("Matches vocal pattern") = If(voc, 1)
            /\ Score = OtherThanPatterns + If(inst, 6) - If(voc, 6)

\* "Karaoke (No Vocals)": three instrumental and two vocal patterns match
C14_Witness ==
    /\ Returned /\ track.name = "Karaoke (No Vocals)"
    /\ HowMany(NameOf(track).instrumental_pattern_hits) = 3
    /\ HowMany(NameOf(track).vocal_pattern_hits) = 2
    /\ TimesGiven("Matches instrumental pattern") = 1
    /\ TimesGiven("Matches vocal pattern") = 1

(***************************************************************************)
(* Claims about analyze_genres (GenresSpec).                               *)
(***************************************************************************)
\* how many genres a reason of analyze_genres shows: one more than it has
\* separators (no genre of the service has a comma in its name)
Shown(reason) ==
    1 + Cardinality({k \in 1..(Len(reason) - 1) : SubSeq(reason, k, k + 1) = ", "})

Min(a, b) == IF a < b THEN a ELSE b

GenreReasons(prefix) ==
    {result[2].reasons[k] : k \in {j \in 1..Len(result[2].reasons) :
                                     StartsWith(result[2].reasons[j], prefix)}}

\* C15: analyze_genres returns 2 * (the number of genre tags, over all the
\* artists given, that contain an INSTRUMENTAL_GENRES entry) - (the number of
\* tags that contain a VOCAL_GENRES entry), a tag counting once per list it
\* matches and once per artist carrying it; its reasons show at most 3 of the
\* matched genres of each list.
C15_GenreScoreCountsTags ==
    pc = "done" =>
        LET ni == Cardinality(InstrumentalTags(artist_info_list))
            nv == Cardinality(VocalTags(artist_info_list))
        IN  /\ result[1] = "returned"
            /\ result[2].score = 4 * ni - 2 * nv
            /\ Cardinality(GenreReasons("Instrumental genres found: ")) = If(ni > 0, 1)
            /\ Cardinality(GenreReasons("Vocal genres found: ")) = If(nv > 0, 1)
            /\ \A r \in GenreReasons("Instrumental genres found: ") : Shown(r) = Min(ni, 3)
            /\ \A r \in GenreReasons("Vocal genres found: ") : Shown(r) = Min(nv, 3)

\* two artists carrying "Classical", a tag of both lists, more than three
\* instrumental matches
C15_Witness ==
    /\ pc = "done" /\ result[1] = "returned"
    /\ artist_info_list = Some(<<WithGenres("a2", <<"Classical", "orchestral soundtrack">>),
                                 WithGenres("a4", <<"classical crossover", "post-rock">>),
                                 WithGenres("a5", <<"Classical", "ambient", "indie pop">>)>>)
    /\ result[2].score = 4 * 6 - 2 * 2

(***************************************************************************)
(* Claim about the confidence level (ClassifySpec).                        *)
(***************************************************************************)
\* the method category a reason comes from; the album, artist-type and
\* first-track rules are taken as categories of their own
Category(reason) ==
    CASE StartsWith(reason, "Strong instrumental keywords: ") -> "keyword"
      [] StartsWith(reason, "Medium instrumental keywords: ") -> "keyword"
      [] StartsWith(reason, "Strong vocal keywords: ") -> "keyword"
      [] StartsWith(reason, "Matches ") -> "pattern"
      [] reason = "Album name suggests instrumental" -> "album"
      [] StartsWith(reason, "Artist type suggests instrumental: ") -> "artist"
      [] StartsWith(reason, "Instrumental genres found: ") -> "genre"
      [] StartsWith(reason, "Vocal genres found: ") -> "genre"
      [] reason = "No genre information available" -> "none"
      [] StartsWith(reason, "Very short duration") -> "duration"
      [] StartsWith(reason, "Long duration") -> "duration"
      [] reason = "First track with 'intro' in name" -> "position"
      [] OTHER -> "audio"

Categories(reasons) == {Category(reasons[k]) : k \in 1..Len(reasons)} \ {"none"}

\* C16: the confidence the function derives is |total score|, plus 0.5
\* exactly when at least 3 distinct method categories gave a reason, a
\* category counting once however many reasons it gave.
C16_ConfidenceBoostedByThreeCategories ==
    Returned =>
        ConfidenceLevel(Score, Reasons) =
            abs(Score) + If(Cardinality(Categories(Reasons)) >= 3, 1)

(***************************************************************************)
(* Claims about add_tracks_to_playlist (AddSpec).                          *)
(***************************************************************************)
RECURSIVE Flatten(_)
Flatten(chunks) ==
    IF chunks = <<>> THEN <<>> ELSE Head(chunks) \o Flatten(Tail(chunks))

\* the service accepts the chunk at some invocation, having rate limited
\* every earlier one, among the 5 that safe_sp_call makes at most
Accepted(answers) ==
    \E k \in 1..5 : /\ answers[k][1] = "ok"
                    /\ \A j \in 1..(k - 1) : answers[j][1] = "429"

AcceptedChunks ==
    LET keep == {k \in 1..Len(attempted) : Accepted(playlist_add_items[k])}
        nth(n) == CHOOSE k \in keep : Cardinality({j \in keep : j < k}) = n - 1
    IN  [n \in 1..Cardinality(keep) |-> attempted[nth(n)]]

\* C17: add_tracks_to_playlist submits every id of track_ids exactly once, in
\* the order of the list, in consecutive chunks of at most 100 ids, all but
\* the last of exactly 100; a chunk whose submission fails (also after the
\* retries of a rate limit are used up) is skipped, every later chunk is
\* still submitted, and the function returns without raising.
C17_EveryIdSubmittedOnceInChunks ==
    /\ \A k \in 1..Len(attempted) :
          /\ Len(attempted[k]) >= 1 /\ Len(attempted[k]) <= 100
          /\ k < Len(attempted) => Len(attempted[k]) = 100
    /\ added = AcceptedChunks
    /\ pc = "done" => /\ Flatten(attempted) = track_ids
                      /\ result = <<"returned", None>>

\* 250 ids: the first chunk rate limited five times, the second refused, the
\* third accepted
C17_Witness ==
    /\ pc = "done" /\ Len(track_ids) = 250
    /\ playlist_add_items[1][5] = <<"429">> /\ playlist_add_items[2][1] = <<"error">>
    /\ Len(attempted) = 3
    /\ added = <<[k \in 1..50 |-> 200 + k]>>

(***************************************************************************)
(* Claim about get_or_create_playlist (PlaylistSpec).                      *)
(***************************************************************************)
\* the playlists of the wanted name the user had before the call
Owned == {k \in 1..Len(user_playlists) :
            /\ user_playlists[k].id # 0
            /\ user_playlists[k].name = LYRICAL_PLAYLIST_NAME}
Created == \E k \in 1..Len(user_playlists) : user_playlists[k].id = 0

\* C18: for any number of playlists the user owns, get_or_create_playlist
\* returns the id of an existing playlist named `name` whenever the user has
\* one, and creates a playlist only when the user has none of that name
\* (stated for the calls the service answers).
C18_CreatesOnlyWhenNoneOfThatName ==
    (pc = "done" /\ result[1] = "returned") =>
        /\ Owned # {} => \E k \in Owned : result[2] = user_playlists[k].id
        /\ Created => Owned = {}

====
